---- MODULE Spec2Model ----
(***************************************************************************)
(* CloudModule.py: preprocess_text and generateTwoGroupWordCloud with its  *)
(* colour function.  A text is a sequence of one-character strings, a word *)
(* is a text without separators, and a number is an exact fraction         *)
(* <<numerator, denominator>> (the values the claims speak of -- 0, 1/2    *)
(* and 1 -- are exact in the floating point arithmetic of the program).    *)
(***************************************************************************)
EXTENDS Integers, Sequences, FiniteSets, TLC

VARIABLES
    \* preprocess_text applied once and twice to a text
    text, once, twice, tpc,
    \* generateTwoGroupWordCloud
    thresholds, colors,            \* the arguments validated first
    input_1, input_2,              \* the texts as the caller passed them
    group_1_text, group_2_text,    \* the texts after preprocess_text
    group_1_words, group_2_words,
    group_1_word_counter, group_2_word_counter,
    word_scores,
    queried, color,                \* the last call of the colour function
    pc, err

vars == <<text, once, twice, tpc, thresholds, colors, input_1, input_2,
          group_1_text, group_2_text, group_1_words, group_2_words,
          group_1_word_counter, group_2_word_counter, word_scores,
          queried, color, pc, err>>

textVars == <<text, once, twice, tpc>>
cloudVars == <<thresholds, colors, input_1, input_2,
               group_1_text, group_2_text, group_1_words, group_2_words,
               group_1_word_counter, group_2_word_counter, word_scores,
               queried, color, pc, err>>

(***************************************************************************)
(* Bounds of the model.                                                    *)
(***************************************************************************)
MaxLen == 5          \* characters of a text given to preprocess_text
MaxWords == 2        \* words of a group text given to the word cloud
MaxThresholds == 2   \* entries of the thresholds and of the colors list

(***************************************************************************)
(* Characters and strings.                                                 *)
(***************************************************************************)
LowerLetters == <<"a", "b", "c", "d", "e", "f", "g", "h", "i", "j", "k", "l", "m",
                  "n", "o", "p", "q", "r", "s", "t", "u", "v", "w", "x", "y", "z">>
UpperLetters == <<"A", "B", "C", "D", "E", "F", "G", "H", "I", "J", "K", "L", "M",
                  "N", "O", "P", "Q", "R", "S", "T", "U", "V", "W", "X", "Y", "Z">>
Digits == {"0", "1", "2", "3", "4", "5", "6", "7", "8", "9"}

Range(s) == {s[i] : i \in DOMAIN s}

\* the class \w of the pattern
IsWordChar(c) ==
    \/ c \in Range(LowerLetters)
    \/ c \in Range(UpperLetters)
    \/ c \in Digits
    \/ c = "_"

\* str.lower() on one character
LowerChar(c) ==
    IF c \in Range(UpperLetters)
    THEN LowerLetters[CHOOSE i \in DOMAIN UpperLetters : UpperLetters[i] = c]
    ELSE c

\* str.lower()
Lower(s) == [i \in DOMAIN s |-> LowerChar(s[i])]

\* str.isdigit(): false for the empty string
IsDigit(s) == Len(s) > 0 /\ \A i \in DOMAIN s : s[i] \in Digits

\* s.lower().endswith("'s")
EndsWithPossessive(s) ==
    /\ Len(s) >= 2
    /\ Lower(s)[Len(s) - 1] = "'"
    /\ Lower(s)[Len(s)] = "s"

\* sep.join(words)
RECURSIVE Join(_, _)
Join(words, sep) ==
    IF words = <<>> THEN <<>>
    ELSE IF Len(words) = 1 THEN words[1]
    ELSE words[1] \o sep \o Join(Tail(words), sep)

\* the pieces of s between the separators, empty pieces included
RECURSIVE split(_, _, _, _)
split(s, sep, i, cur) ==
    IF i > Len(s) THEN <<cur>>
    ELSE IF s[i] = sep THEN <<cur>> \o split(s, sep, i + 1, <<>>)
    ELSE split(s, sep, i + 1, Append(cur, s[i]))

\* a split that drops the empty pieces, as str.split() without a separator does
SplitWhitespace(s) == SelectSeq(split(s, " ", 1, <<>>), LAMBDA w : w # <<>>)

\* s.split(' ')
Split(s) == split(s, " ", 1, <<>>)

(***************************************************************************)
(* preprocess_text                                                         *)
(***************************************************************************)
\* re.findall(r"\w[\w']*", s): the leftmost, longest, non-overlapping matches
RECURSIVE findall(_, _, _)
findall(s, i, cur) ==
    IF i > Len(s) THEN (IF cur = <<>> THEN <<>> ELSE <<cur>>)
    ELSE IF cur = <<>>
         THEN IF IsWordChar(s[i]) THEN findall(s, i + 1, <<s[i]>>)
                                  ELSE findall(s, i + 1, <<>>)
         ELSE IF IsWordChar(s[i]) \/ s[i] = "'"
              THEN findall(s, i + 1, Append(cur, s[i]))
              ELSE <<cur>> \o findall(s, i + 1, <<>>)

FindAll(s) == findall(s, 1, <<>>)

\* word[:-2] if word.lower().endswith("'s") else word, for each word
RemovePossessive(words) ==
    [i \in DOMAIN words |->
        IF EndsWithPossessive(words[i])
        THEN SubSeq(words[i], 1, Len(words[i]) - 2)
        ELSE words[i]]

\* the words that are not str.isdigit()
RemoveNumbers(words) == SelectSeq(words, LAMBDA w : ~IsDigit(w))

\* preprocess_text with the two filters in the other order
preprocess_text_numbers_first(s) ==
    Lower(Join(RemovePossessive(RemoveNumbers(FindAll(s))), <<" ">>))

preprocess_text(s) ==
    Lower(Join(RemoveNumbers(RemovePossessive(FindAll(s))), <<" ">>))

(***************************************************************************)
(* Numbers: exact fractions <<numerator, denominator>>, denominator > 0.   *)
(***************************************************************************)
Zero == <<0, 1>>
Half == <<1, 2>>
One == <<1, 1>>

RatLeq(x, y) == x[1] * y[2] <= y[1] * x[2]
RatEq(x, y) == x[1] * y[2] = y[1] * x[2]
RatAdd(x, y) == <<x[1] * y[2] + y[1] * x[2], x[2] * y[2]>>
\* x / y for x >= 0 and y > 0; the caller raises ZeroDivisionError for y = 0
RatDiv(x, y) == <<x[1] * y[2], x[2] * y[1]>>

(***************************************************************************)
(* generateTwoGroupWordCloud                                               *)
(***************************************************************************)
\* a validation that does not look at the last threshold
validate_without_last(th, co) ==
    IF ~(\A i \in 1..(Len(th) - 1) : RatLeq(th[i], th[i + 1])) THEN "NotSorted"
    ELSE IF Len(th) # Len(co) THEN "LenMismatch"
    ELSE "ok"

\* the validation of the arguments: "ok", or the exception it raises.  An
\* empty thresholds list passes the first test and fails in thresholds[-1].
validate(th, co) ==
    IF ~(\A i \in 1..(Len(th) - 1) : RatLeq(th[i], th[i + 1])) THEN "NotSorted"
    ELSE IF Len(th) = 0 THEN "IndexError"
    ELSE IF ~RatEq(th[Len(th)], One) THEN "LastNot1"
    ELSE IF Len(th) # Len(co) THEN "LenMismatch"
    ELSE "ok"

\* collections.Counter(words)
Counter(words) ==
    [w \in Range(words) |-> Cardinality({i \in DOMAIN words : words[i] = w})]

\* {word: counter[word] / len(words) for word in counter}
Normalize(counter, words) ==
    [w \in DOMAIN counter |-> <<counter[w], Len(words)>>]

\* lookup in defaultdict(float, counter)
Freq(counter, w) == IF w \in DOMAIN counter THEN counter[w] ELSE Zero

\* set(group_1_words).union(group_2_words)
Union(words1, words2) == Range(words1) \cup Range(words2)

\* group_2_score / (group_1_score + group_2_score)
ScoreOfGroup2(f1, f2) == RatDiv(f2, RatAdd(f1, f2))

\* group_1_score / group_2_score
ScoreRatio(f1, f2) == RatDiv(f1, f2)

\* group_1_score / (group_1_score + group_2_score)
Score(f1, f2) == RatDiv(f1, RatAdd(f1, f2))

\* the first colour whose threshold is strictly above the score
RECURSIVE first_color_strict(_, _, _, _)
first_color_strict(score, th, co, i) ==
    IF i > Len(th) \/ i > Len(co) THEN "InvalidScore"
    ELSE IF ~RatLeq(th[i], score) THEN co[i]
    ELSE first_color_strict(score, th, co, i + 1)

\* for t, c in zip(thresholds, colors): if score <= t: return c
RECURSIVE first_color(_, _, _, _)
first_color(score, th, co, i) ==
    IF i > Len(th) \/ i > Len(co) THEN "InvalidScore"
    ELSE IF RatLeq(score, th[i]) THEN co[i]
    ELSE first_color(score, th, co, i + 1)

choose_color_strict(word, scores, th, co) ==
    IF word \notin DOMAIN scores THEN "NoScore"
    ELSE first_color_strict(scores[word], th, co, 1)

\* __choose_color__ of __create_choose_color_func__(scores, th, co): the
\* colour, or the exception it raises
choose_color(word, scores, th, co) ==
    IF word \notin DOMAIN scores THEN "NoScore"
    ELSE first_color(scores[word], th, co, 1)

(***************************************************************************)
(* Inputs.                                                                 *)
(***************************************************************************)
SeqsUpTo(S, n) == UNION {[1..k -> S] : k \in 0..n}

TextAlphabet == {"a", "s", "S", "1", "'", " "}

dogs == <<"d", "o", "g", "'", "s">>
ExampleTexts ==
    { dogs,
      dogs \o <<"'", "s">>,
      <<"1", "'", "s", "'", "s">>,
      <<"4", "2", "'", "s">>,
      <<"4", "2", " ", "c", "a", "t", "s">> }

Texts == SeqsUpTo(TextAlphabet, MaxLen) \cup ExampleTexts

hello == <<"h", "e", "l", "l", "o">>
world == <<"w", "o", "r", "l", "d">>
fortytwo == <<"4", "2">>
dog == <<"d", "o", "g">>
RawWords == {hello, world, fortytwo}

GroupTexts == {Join(ws, <<" ">>) : ws \in SeqsUpTo(RawWords, MaxWords)}

ThresholdValues == {Half, One}
Colors == {"blue", "red"}

\* the words the renderer may ask the colour of
QueryWords == {hello, world, dog, <<>>}

Errors == {"NotSorted", "LastNot1", "LenMismatch", "IndexError",
           "ZeroDivisionError", "NoScore", "InvalidScore"}

(***************************************************************************)
(* preprocess_text, applied to a text and to its own result.               *)
(***************************************************************************)
IdleText == text = <<>> /\ once = <<>> /\ twice = <<>> /\ tpc = "idle"

IdleCloud ==
    /\ thresholds = <<>> /\ colors = <<>>
    /\ input_1 = <<>> /\ input_2 = <<>>
    /\ group_1_text = <<>> /\ group_2_text = <<>>
    /\ group_1_words = <<>> /\ group_2_words = <<>>
    /\ group_1_word_counter = <<>> /\ group_2_word_counter = <<>>
    /\ word_scores = <<>>
    /\ queried = <<>> /\ color = "unset"
    /\ pc = "idle" /\ err = "none"

InitText ==
    /\ text \in Texts
    /\ once = <<>> /\ twice = <<>> /\ tpc = "start"
    /\ IdleCloud

Preprocess ==
    /\ tpc = "start"
    /\ once' = preprocess_text(text)
    /\ tpc' = "once"
    /\ UNCHANGED <<text, twice>>
    /\ UNCHANGED cloudVars

PreprocessAgain ==
    /\ tpc = "once"
    /\ twice' = preprocess_text(once)
    /\ tpc' = "twice"
    /\ UNCHANGED <<text, once>>
    /\ UNCHANGED cloudVars

NextText == Preprocess \/ PreprocessAgain

SpecText == InitText /\ [][NextText]_vars

(***************************************************************************)
(* generateTwoGroupWordCloud, one call.                                    *)
(***************************************************************************)
Init ==
    /\ IdleText
    /\ thresholds \in SeqsUpTo(ThresholdValues, MaxThresholds)
    /\ colors \in SeqsUpTo(Colors, MaxThresholds)
    /\ input_1 = <<>> /\ input_2 = <<>>
    /\ group_1_text = <<>> /\ group_2_text = <<>>
    /\ group_1_words = <<>> /\ group_2_words = <<>>
    /\ group_1_word_counter = <<>> /\ group_2_word_counter = <<>>
    /\ word_scores = <<>>
    /\ queried = <<>> /\ color = "unset"
    /\ pc = "validate" /\ err = "none"

\* lines 85-92
Validate ==
    /\ pc = "validate"
    /\ IF validate(thresholds, colors) = "ok"
       THEN pc' = "preprocess" /\ err' = err
       ELSE pc' = "raised" /\ err' = validate(thresholds, colors)
    /\ UNCHANGED <<thresholds, colors, input_1, input_2, group_1_text, group_2_text,
                   group_1_words, group_2_words, group_1_word_counter,
                   group_2_word_counter, word_scores, queried, color>>
    /\ UNCHANGED textVars

\* lines 94-95, for the two texts of the call
PreprocessGroups ==
    /\ pc = "preprocess"
    /\ \E t1 \in GroupTexts, t2 \in GroupTexts :
        /\ input_1' = t1
        /\ input_2' = t2
        /\ group_1_text' = preprocess_text(t1)
        /\ group_2_text' = preprocess_text(t2)
    /\ pc' = "frequencies"
    /\ UNCHANGED <<thresholds, colors, group_1_words, group_2_words,
                   group_1_word_counter, group_2_word_counter, word_scores,
                   queried, color, err>>
    /\ UNCHANGED textVars

\* lines 98-109: a division by len(words) = 0 raises ZeroDivisionError
ComputeFrequencies ==
    /\ pc = "frequencies"
    /\ LET w1 == Split(group_1_text)
           w2 == Split(group_2_text)
           c1 == Counter(w1)
           c2 == Counter(w2)
       IN  /\ group_1_words' = w1
           /\ group_2_words' = w2
           /\ IF \/ (DOMAIN c1 # {} /\ Len(w1) = 0)
                 \/ (DOMAIN c2 # {} /\ Len(w2) = 0)
              THEN /\ pc' = "raised" /\ err' = "ZeroDivisionError"
                   /\ group_1_word_counter' = c1
                   /\ group_2_word_counter' = c2
              ELSE /\ pc' = "scores" /\ err' = err
                   /\ group_1_word_counter' = Normalize(c1, w1)
                   /\ group_2_word_counter' = Normalize(c2, w2)
    /\ UNCHANGED <<thresholds, colors, input_1, input_2, group_1_text, group_2_text,
                   word_scores, queried, color>>
    /\ UNCHANGED textVars

\* lines 112-117: a word with group_1_score + group_2_score = 0 raises
\* ZeroDivisionError
GenerateScores ==
    /\ pc = "scores"
    /\ LET words == Union(group_1_words, group_2_words)
           f1(w) == Freq(group_1_word_counter, w)
           f2(w) == Freq(group_2_word_counter, w)
       IN  IF \E w \in words : RatAdd(f1(w), f2(w))[1] = 0
           THEN pc' = "raised" /\ err' = "ZeroDivisionError" /\ word_scores' = word_scores
           ELSE /\ pc' = "recolor" /\ err' = err
                /\ word_scores' = [w \in words |-> Score(f1(w), f2(w))]
    /\ UNCHANGED <<thresholds, colors, input_1, input_2, group_1_text, group_2_text,
                   group_1_words, group_2_words, group_1_word_counter,
                   group_2_word_counter, queried, color>>
    /\ UNCHANGED textVars

\* lines 122, 127-137: the renderer asks for the colour of a word; an
\* exception of the colour function ends the call
Recolor ==
    /\ pc = "recolor"
    /\ \E word \in QueryWords :
        /\ queried' = word
        /\ color' = choose_color(word, word_scores, thresholds, colors)
        /\ IF color' \in Errors
           THEN pc' = "raised" /\ err' = color'
           ELSE pc' = pc /\ err' = err
    /\ UNCHANGED <<thresholds, colors, input_1, input_2, group_1_text, group_2_text,
                   group_1_words, group_2_words, group_1_word_counter,
                   group_2_word_counter, word_scores>>
    /\ UNCHANGED textVars

\* line 124
Return ==
    /\ pc = "recolor"
    /\ pc' = "returned"
    /\ UNCHANGED <<thresholds, colors, input_1, input_2, group_1_text, group_2_text,
                   group_1_words, group_2_words, group_1_word_counter,
                   group_2_word_counter, word_scores, queried, color, err>>
    /\ UNCHANGED textVars

Next ==
    \/ Validate
    \/ PreprocessGroups
    \/ ComputeFrequencies
    \/ GenerateScores
    \/ Recolor
    \/ Return

Spec == Init /\ [][Next]_vars

(***************************************************************************)
(* Vocabulary of the claims.                                               *)
(***************************************************************************)
ValidationErrors == {"NotSorted", "LastNot1", "LenMismatch"}

\* the call is past the validation of its arguments
Validated == pc \notin {"idle", "validate"}

\* the validation raised one of its three exceptions
ValidationFailed == pc = "raised" /\ err \in ValidationErrors

\* the call went on to the texts
ValidationPassed == Validated /\ (pc = "raised" => err \in {"ZeroDivisionError", "NoScore", "InvalidScore"})

\* the three rules of the thresholds and colors lists; a list without entries
\* has no last threshold equal to 1
NonDecreasing(th) == \A i \in 1..(Len(th) - 1) : RatLeq(th[i], th[i + 1])
LastIsOne(th) == Len(th) > 0 /\ RatEq(th[Len(th)], One)
RulesViolated(th, co) == ~NonDecreasing(th) \/ ~LastIsOne(th) \/ Len(th) # Len(co)

\* the frequencies of both groups have been computed
Counted == pc \in {"scores", "recolor", "returned"}
           \/ (pc = "raised" /\ err \in {"NoScore", "InvalidScore"})

\* the scores of the words have been computed
Scored == pc \in {"recolor", "returned"}
          \/ (pc = "raised" /\ err \in {"NoScore", "InvalidScore"})

\* the colour function has been called
Called == color # "unset"

Vocabulary == Range(group_1_words) \cup Range(group_2_words)

InUnitInterval(x) == x[2] > 0 /\ x[1] >= 0 /\ x[1] <= x[2]

\* the whitespace-separated tokens of a text
Tokens(s) == SelectSeq(Split(s), LAMBDA w : w # <<>>)

ExampleCall ==
    /\ input_1 = hello /\ input_2 = world
    /\ thresholds = <<Half, One>> /\ colors = <<"blue", "red">>

\* the least index whose threshold is at least the score
FirstBucket(score, th) ==
    CHOOSE i \in 1..Len(th) :
        /\ RatLeq(score, th[i])
        /\ \A j \in 1..(i - 1) : ~RatLeq(score, th[j])

(***************************************************************************)
(* The claims.                                                             *)
(***************************************************************************)

\* C1: for every thresholds and colors list, the empty ones included, the
\* validation raises a validation error if and only if the thresholds are not
\* non-decreasing, or the last one is not 1, or the lists differ in length;
\* and it passes when the three rules hold.
C1_ValidationIffRuleBroken ==
    Validated =>
        /\ ValidationFailed <=> RulesViolated(thresholds, colors)
        /\ ~RulesViolated(thresholds, colors) => ValidationPassed

\* C2: for two non-empty texts and validated thresholds and colors, every word
\* of the union of the two vocabularies gets a score s with 0 <= s <= 1, and
\* the colour function returns one of the given colours for it, raising
\* neither "no score" nor "invalid score".
C2_ScoresInRangeAndColoured ==
    (input_1 # <<>> /\ input_2 # <<>>) =>
        /\ err # "ZeroDivisionError"
        /\ Scored =>
              \A w \in Vocabulary :
                  /\ w \in DOMAIN word_scores
                  /\ InUnitInterval(word_scores[w])
        /\ (Called /\ queried \in Vocabulary) => color \in Range(colors)

C2_Witness ==
    /\ input_1 = Join(<<hello, hello>>, <<" ">>)
    /\ input_2 = Join(<<hello, world>>, <<" ">>)
    /\ thresholds = <<Half, One>>
    /\ queried = hello /\ color = colors[2]

C4_DocstringExample ==
    /\ Scored =>
          \A w \in DOMAIN word_scores \ {<<>>} :
              (~RatLeq(Half, word_scores[w])) =>
                  ~RatLeq(Freq(group_1_word_counter, w), Freq(group_2_word_counter, w))
    /\ (ExampleCall /\ Called) =>
          /\ queried = hello => color = "blue"
          /\ queried = world => color = "red"

\* C5: preprocess_text is idempotent: applied to its own result it returns
\* that result.
C5_Idempotent == tpc = "twice" => twice = once

\* C6: the colour function raises "no score" for a word without a score, and
\* otherwise returns colors[i] for the least i with score <= thresholds[i]; a
\* score equal to a threshold falls into that threshold's bucket.
C6_FirstBucketAtLeastScore ==
    Called =>
        IF queried \notin DOMAIN word_scores
        THEN color = "NoScore" /\ pc = "raised" /\ err = "NoScore"
        ELSE (\E i \in 1..Len(thresholds) : RatLeq(word_scores[queried], thresholds[i])) =>
                 color = colors[FirstBucket(word_scores[queried], thresholds)]

C6_Witness ==
    /\ Called
    /\ queried \in DOMAIN word_scores
    /\ thresholds = <<Half, One>>
    /\ colors = <<"blue", "red">>
    /\ RatEq(word_scores[queried], Half)
    /\ color = "blue"

\* C7: when the two texts are the same, every word of the vocabulary scores
\* exactly 0.5, also when the text normalizes to no word at all.
C7_IdenticalTextsScoreHalf ==
    (input_1 = input_2) =>
        /\ err # "ZeroDivisionError"
        /\ Scored =>
              /\ DOMAIN word_scores = Vocabulary
              /\ \A w \in DOMAIN word_scores :
                    word_scores[w][2] # 0 /\ RatEq(word_scores[w], Half)

C7_Witness ==
    /\ Scored
    /\ input_1 = Join(<<hello, world>>, <<" ">>)
    /\ input_2 = input_1
    /\ Cardinality(DOMAIN word_scores) = 2

\* C8: "dog's" normalizes to "dog", and no token of any result of
\* preprocess_text ends with "'s".
C8_NoPossessiveLeft ==
    tpc \in {"once", "twice"} =>
        /\ text = dogs => once = dog
        /\ \A i \in DOMAIN Tokens(once) : ~EndsWithPossessive(Tokens(once)[i])

\* C9: "42 cats" normalizes to "cats", and no token of any result of
\* preprocess_text consists of digits only, also when the digits were followed
\* by a possessive.
C9_NoNumberLeft ==
    tpc \in {"once", "twice"} =>
        /\ text = <<"4", "2", " ", "c", "a", "t", "s">> => once = <<"c", "a", "t", "s">>
        /\ \A i \in DOMAIN Tokens(once) : ~IsDigit(Tokens(once)[i])

C9_Witness ==
    /\ tpc = "once"
    /\ text = <<"1", "'", "s", " ", "a">>
    /\ once = <<"a">>

\* C10: for every pair of texts, the empty ones included, no division is by
\* zero: each group's number of words is at least 1, and every word of the
\* union has a nonzero frequency in at least one group.
C10_NoDivisionByZero ==
    /\ err # "ZeroDivisionError"
    /\ Counted =>
          /\ Len(group_1_words) >= 1
          /\ Len(group_2_words) >= 1
          /\ \A w \in DOMAIN group_1_word_counter : group_1_word_counter[w][2] >= 1
          /\ \A w \in DOMAIN group_2_word_counter : group_2_word_counter[w][2] >= 1
          /\ \A w \in Vocabulary :
                RatAdd(Freq(group_1_word_counter, w), Freq(group_2_word_counter, w))[1] > 0

C10_Witness ==
    /\ Scored
    /\ input_1 = <<>>
    /\ input_2 = fortytwo
    /\ DOMAIN word_scores = {<<>>}

====
